---- MODULE Spec2Model ----
(***************************************************************************)
(* A model of small_iter's SmallIter<T> (src/src/lib.rs): the three-pointer *)
(* owning iterator over a Box<[T]>, its construction from Box<[T]> and      *)
(* Vec<T>, next, the slice views, size_hint, clone, default and the         *)
(* two-phase drop (elements first, then the allocation, guarded against     *)
(* unwinding).                                                              *)
(*                                                                          *)
(* Pointers are words of WordBits bits.  The heap is a list of blocks with  *)
(* a base address and a size in bytes; memory maps the address of an        *)
(* element slot to the identity of the object stored there.  A value of a   *)
(* zero-sized type is the single value ZstValue and lives nowhere.          *)
(*                                                                          *)
(* Next holds every operation of the program on an iterator and its clone.  *)
(* The properties are checked on the programs they speak about, whose       *)
(* steps are steps of Next: SpecSolo (one iterator), SpecClone (an iterator *)
(* and its clone), SpecPair (a sized and a zero-sized iterator side by      *)
(* side) and SpecWrap (zero-sized slices of every length a word holds).     *)
(***************************************************************************)
EXTENDS Integers, Sequences, FiniteSets, TLC

\* ---------------------------------------------------------------- bounds
MaxLen == 3        \* longest source array
MaxExtraCap == 1   \* a Vec's capacity exceeds its length by at most this
ExtraCalls == 2    \* calls to next made after exhaustion
MaxWrites == 1     \* elements stored through as_mut_slice
WordBits == 5      \* width of a pointer / usize
ElemSize == 2      \* size_of::<T>() of the non-zero-sized element type

Vals == {1, 2}     \* payloads of non-zero-sized elements

RECURSIVE Pow2(_)
Pow2(k) == IF k = 0 THEN 1 ELSE 2 * Pow2(k - 1)

WordMod == Pow2(WordBits)
Addr == 0 .. (WordMod - 1)

Iters == {1, 2}

\* The element types: [size |-> size_of::<T>(), align |-> align_of::<T>()].
\* Two zero-sized types that differ in alignment, and one sized type.
Types == {[size |-> 0, align |-> 1], [size |-> 0, align |-> ElemSize],
          [size |-> ElemSize, align |-> ElemSize]}

IsZst(T) == T.size = 0

\* The one value of a zero-sized type, and the content of a slot that holds
\* no initialized element.
ZstValue == 0
Uninit == -1

\* Option<T>
None == [some |-> FALSE, val |-> Uninit]
Some(x) == [some |-> TRUE, val |-> x]

VARIABLES
    ty,       \* ty[i]: the element type T of iterator i
    life,     \* life[i]: "none" (not constructed), "active", "dropped"
    it,       \* it[i]: the struct SmallIter<T>: elements_start, allocation_start, end
    blocks,   \* the heap: sequence of [base, size, frees]
    mem,      \* mem[a]: identity of the object in the slot at address a, or Uninit
    objs,     \* objs[id]: payload of object id
    ub,       \* TRUE once an operation with undefined behaviour was executed
    aborted,  \* TRUE once the process aborted (a panic during cleanup)
    orig,     \* orig[i]: the elements of the array iterator i was built from
    src,      \* src[i]: how iterator i was built, the source's capacity, and for
              \* a clone the elements that were cloned
    own,      \* own[i]: index in blocks of the allocation handed to iterator i (0: none)
    rets,     \* rets[i]: what the calls to next returned, in order
    dropLog,  \* dropLog[i]: what drop did: destructor runs and the deallocation
    outcome,  \* outcome[i]: "none", "returned", "unwound" or "aborted"
    written,  \* written[i]: orig[i] with the elements stored through as_mut_slice
    panicking \* panicking[i]: the drop of i ran while the thread was unwinding

vars == <<ty, life, it, blocks, mem, objs, ub, aborted, orig, src, own, rets,
          dropLog, outcome, written, panicking>>

\* ------------------------------------------------------- word arithmetic
wrapping_add(a, n) == (a + n) % WordMod
\* A subtraction that stops at zero instead of wrapping.
saturating_sub(a, n) == IF a >= n THEN a - n ELSE 0

wrapping_sub(a, n) == (a - n + WordMod * (1 + n \div WordMod)) % WordMod

\* NonNull::<T>::dangling(): the address align_of::<T>()
dangling(T) == T.align

\* ------------------------------------------------------------- the heap
Live(bl) == {j \in DOMAIN bl : bl[j].frees = 0}

Overlaps(b, a, size) == a < b.base + b.size /\ b.base < a + size

\* The addresses at which a new block of `size` bytes can be placed.
FreeBases(bl, size, align) ==
    {a \in Addr : /\ a > ElemSize
                  /\ a % align = 0
                  /\ a + size <= WordMod
                  /\ \A j \in Live(bl) : ~Overlaps(bl[j], a, size)}

\* The allocator is first-fit: it returns the lowest of them (none: the
\* allocation fails and the caller does not go on).
AllocBases(bl, size, align) ==
    {a \in FreeBases(bl, size, align) :
        \A b \in FreeBases(bl, size, align) : a <= b}

\* A heap state is [blocks, mem, objs, ub].
Heap == [blocks |-> blocks, mem |-> mem, objs |-> objs, ub |-> ub]

\* dealloc(ptr, layout of `size` bytes): a layout of size zero is never passed
\* to the allocator; any other must be the live block at that address, whole.
Dealloc(h, base, size) ==
    IF size = 0 THEN h
    ELSE LET hit == {j \in DOMAIN h.blocks : h.blocks[j].base = base}
             good == {j \in hit : h.blocks[j].frees = 0 /\ h.blocks[j].size = size}
         IN  IF good # {}
             THEN LET j == CHOOSE x \in good : TRUE
                  IN  [h EXCEPT !.blocks[j].frees = 1,
                                !.mem = [a \in base .. (base + size - 1) |->
                                           Uninit] @@ @]
             ELSE [h EXCEPT !.ub = TRUE,
                            !.blocks = [j \in DOMAIN h.blocks |->
                                          IF j \in hit
                                          THEN [h.blocks[j] EXCEPT !.frees = @ + 1]
                                          ELSE h.blocks[j]]]

Read(m, a) == IF a \in Addr THEN m[a] ELSE Uninit

\* Index of the live block that starts at `base` (0: there is none).
BlockAt(bl, base) ==
    IF \E j \in Live(bl) : bl[j].base = base
    THEN CHOOSE j \in Live(bl) : bl[j].base = base
    ELSE 0

\* The arrays a caller can own: any payloads for a sized T, n unit values
\* for a zero-sized T.
InputArrays(T) ==
    IF IsZst(T)
    THEN {[j \in 1 .. n |-> ZstValue] : n \in 0 .. MaxLen}
    ELSE UNION {[1 .. n -> Vals] : n \in 0 .. MaxLen}

\* The caller's array before the conversion: `vals` stored in a buffer of
\* `cap` element slots at `base` (a Box<[T]> has cap = len).  A buffer of zero
\* bytes is not allocated and its pointer is dangling.
\* Gives [h, ptr, elems]: the heap, the buffer pointer, the elements stored.
MakeArray(h, T, vals, cap, base) ==
    LET n == Len(vals)
        first == Len(h.objs)
        ids == IF IsZst(T) THEN vals ELSE [j \in 1 .. n |-> first + j]
    IN  IF cap * T.size = 0
        THEN [h |-> h, ptr |-> dangling(T), elems |-> ids]
        ELSE [h |-> [h EXCEPT
                      !.blocks = Append(@, [base |-> base, size |-> cap * T.size,
                                            frees |-> 0]),
                      !.objs = @ \o vals,
                      !.mem = [a \in Addr |->
                                 IF \E j \in 1 .. n : a = base + (j - 1) * T.size
                                 THEN first + 1 + ((a - base) \div T.size)
                                 ELSE h.mem[a]]],
              ptr |-> base, elems |-> ids]

\* --------------------------------------------------------- construction
\* A conversion without the zero-sized case: end is ptr + len elements for
\* every T.
into_small_iter_uniform(T, ptr, len) ==
    [elements_start |-> IF IsZst(T) THEN dangling(T) ELSE ptr,
     allocation_start |-> IF IsZst(T) THEN dangling(T) ELSE ptr,
     end |-> (IF IsZst(T) THEN dangling(T) ELSE ptr) + len * T.size]

\* A conversion whose end lies one element too far.
into_small_iter_one_past(T, ptr, len) ==
    IF IsZst(T)
    THEN [elements_start |-> dangling(T),
          allocation_start |-> dangling(T),
          end |-> wrapping_add(dangling(T), len + 1)]
    ELSE [elements_start |-> ptr,
          allocation_start |-> ptr,
          end |-> ptr + (len + 1) * T.size]

\* impl IntoSmallIterExt for Box<[T]>: into_small_iter on the raw slice
\* pointer (ptr, len).
into_small_iter(T, ptr, len) ==
    IF IsZst(T)
    THEN [elements_start |-> dangling(T),
          allocation_start |-> dangling(T),
          end |-> wrapping_add(dangling(T), len)]
    ELSE [elements_start |-> ptr,
          allocation_start |-> ptr,
          end |-> ptr + len * T.size]

\* A conversion that keeps the excess capacity.
into_boxed_slice_keeping(h, T, ptr, len, cap, newbase) == [h |-> h, ptr |-> ptr]

\* Vec::into_boxed_slice: with excess capacity the buffer is shrunk to fit;
\* an empty one is released, another is reallocated to len slots, in place
\* (newbase = ptr) or moved to newbase.  Gives [h, ptr].
into_boxed_slice(h, T, ptr, len, cap, newbase) ==
    IF len >= cap \/ IsZst(T) THEN [h |-> h, ptr |-> ptr]
    ELSE IF len = 0 THEN [h |-> Dealloc(h, ptr, cap * T.size), ptr |-> dangling(T)]
    ELSE IF newbase = ptr
         THEN LET j == BlockAt(h.blocks, ptr)
              IN  [h |-> [h EXCEPT
                           !.blocks[j].size = len * T.size,
                           !.mem = [a \in Addr |->
                                      IF a >= ptr + len * T.size /\ a < ptr + cap * T.size
                                      THEN Uninit ELSE h.mem[a]]],
                   ptr |-> ptr]
         ELSE LET moved == [h EXCEPT
                             !.blocks = Append(@, [base |-> newbase,
                                                   size |-> len * T.size,
                                                   frees |-> 0]),
                             !.mem = [a \in Addr |->
                                        IF a >= newbase /\ a < newbase + len * T.size
                                        THEN h.mem[ptr + (a - newbase)]
                                        ELSE h.mem[a]]]
              IN  [h |-> Dealloc(moved, ptr, cap * T.size), ptr |-> newbase]

\* Where the shrunk buffer may end up.
ShrinkBases(h, T, ptr, len, cap) ==
    IF len >= cap \/ IsZst(T) \/ len = 0 THEN {ptr}
    ELSE {ptr} \cup AllocBases(h.blocks, len * T.size, T.align)

\* ------------------------------------------------------------- lengths
\* elements_len measured from the start of the allocation.
elements_len_from_allocation(T, self) ==
    IF IsZst(T)
    THEN wrapping_sub(self.end, self.allocation_start)
    ELSE ((self.end - self.allocation_start) \div T.size) % WordMod

\* SmallIter::elements_len
elements_len(T, self) ==
    IF IsZst(T)
    THEN wrapping_sub(self.end, self.elements_start)
    ELSE ((self.end - self.elements_start) \div T.size) % WordMod

\* An allocation_len that counts the remaining elements only.
allocation_len_remaining(T, self) ==
    IF IsZst(T)
    THEN 0
    ELSE ((self.end - self.elements_start) \div T.size) % WordMod

\* SmallIter::allocation_len
allocation_len(T, self) ==
    IF IsZst(T)
    THEN 0
    ELSE ((self.end - self.allocation_start) \div T.size) % WordMod

\* slice::from_raw_parts(ptr, len) read as a sequence of elements; a slice
\* of a zero-sized type reads no memory.
SliceAt(T, m, ptr, len) ==
    [j \in 1 .. len |-> IF IsZst(T) THEN ZstValue
                        ELSE Read(m, ptr + (j - 1) * T.size)]

\* A view that starts at the allocation instead of the cursor.
as_slice_from_allocation(T, self, m) ==
    SliceAt(T, m, self.allocation_start, elements_len(T, self))

\* SmallIter::as_slice
as_slice(T, self, m) == SliceAt(T, m, self.elements_start, elements_len(T, self))

\* A mutable view that starts at the allocation instead of the cursor.
as_mut_slice_from_allocation(T, self) ==
    [ptr |-> self.allocation_start, len |-> elements_len(T, self)]

\* SmallIter::as_mut_slice (and AsMut::as_mut): the exclusive view, as the
\* place [ptr, len] that is written through.
as_mut_slice(T, self) ==
    [ptr |-> self.elements_start, len |-> elements_len(T, self)]

\* Iterator::size_hint
size_hint(T, self) == <<elements_len(T, self), Some(elements_len(T, self))>>

\* A next that advances the cursor by one byte instead of one element.
next_byte_step(T, self, m) ==
    IF self.elements_start = self.end
    THEN [self |-> self, ret |-> None]
    ELSE IF IsZst(T)
    THEN [self |-> [self EXCEPT !.end = wrapping_sub(self.end, 1)],
          ret |-> Some(ZstValue)]
    ELSE [self |-> [self EXCEPT !.elements_start = self.elements_start + 1],
          ret |-> Some(Read(m, self.elements_start))]

\* A next whose sized branch does not test for the end.
next_past_end(T, self, m) ==
    IF IsZst(T)
    THEN IF self.elements_start = self.end
         THEN [self |-> self, ret |-> None]
         ELSE [self |-> [self EXCEPT !.end = wrapping_sub(self.end, 1)],
               ret |-> Some(ZstValue)]
    ELSE [self |-> [self EXCEPT !.elements_start = self.elements_start + T.size],
          ret |-> Some(Read(m, self.elements_start))]

\* A next that keeps two pointers in step: allocation_start follows the
\* cursor.
next_moving_allocation(T, self, m) ==
    IF self.elements_start = self.end
    THEN [self |-> self, ret |-> None]
    ELSE IF IsZst(T)
    THEN [self |-> [self EXCEPT !.end = wrapping_sub(self.end, 1)],
          ret |-> Some(ZstValue)]
    ELSE [self |-> [self EXCEPT !.elements_start = self.elements_start + T.size,
                                !.allocation_start = self.elements_start + T.size],
          ret |-> Some(Read(m, self.elements_start))]

\* A next whose zero-sized branch moves elements_start up instead of end
\* down.
next_zst_front(T, self, m) ==
    IF self.elements_start = self.end
    THEN [self |-> self, ret |-> None]
    ELSE IF IsZst(T)
    THEN [self |-> [self EXCEPT !.elements_start = wrapping_add(self.elements_start, 1)],
          ret |-> Some(ZstValue)]
    ELSE [self |-> [self EXCEPT !.elements_start = self.elements_start + T.size],
          ret |-> Some(Read(m, self.elements_start))]

\* Iterator::next: gives [self, ret], the struct after the call and the
\* value returned.
next(T, self, m) ==
    IF self.elements_start = self.end
    THEN [self |-> self, ret |-> None]
    ELSE IF IsZst(T)
    THEN [self |-> [self EXCEPT !.end = wrapping_sub(self.end, 1)],
          ret |-> Some(ZstValue)]
    ELSE [self |-> [self EXCEPT !.elements_start = self.elements_start + T.size],
          ret |-> Some(Read(m, self.elements_start))]

\* ---------------------------------------------------------------- clone
ValOf(h, x) == IF x \in DOMAIN h.objs THEN h.objs[x] ELSE x

\* The bytes Box::<[T]>::from(self.as_slice()) allocates.
clone_bytes(T, self) == elements_len(T, self) * T.size

\* A clone that copies the three pointers.
clone_shallow(T, self, h, base) ==
    [h |-> h, self |-> self, elems |-> as_slice(T, self, h.mem)]

\* impl Clone for SmallIter: the remaining elements are cloned into a new
\* boxed slice at `base`, which is converted.  Gives [h, self, elems].
clone(T, self, h, base) ==
    LET view == as_slice(T, self, h.mem)
        vals == [k \in DOMAIN view |-> ValOf(h, view[k])]
        b == MakeArray(h, T, vals, Len(vals), base)
    IN  [h |-> b.h, self |-> into_small_iter(T, b.ptr, Len(vals)), elems |-> b.elems]

\* ------------------------------------------------------------------ drop
DtorEvent(a, x, p) == [kind |-> "dtor", at |-> a, obj |-> x, panic |-> p, size |-> 0]
FreeEvent(a, n) == [kind |-> "free", at |-> a, obj |-> Uninit, panic |-> FALSE, size |-> n]

\* The destructor run of element j of the slice at ptr.
DtorOf(T, m, ptr, F, j) ==
    DtorEvent(ptr + (j - 1) * T.size,
              IF IsZst(T) THEN ZstValue ELSE Read(m, ptr + (j - 1) * T.size),
              j \in F)

\* A drop_in_place that gives up at the first panic, leaving the rest.
drop_in_place_stopping(T, m, ptr, len, F, j, unwinding) ==
    LET panics == {k \in j .. len : k \in F}
        last == IF panics = {} THEN len
                ELSE CHOOSE k \in panics : \A q \in panics : k <= q
    IN  [log |-> [e \in 1 .. (last - j + 1) |-> DtorOf(T, m, ptr, F, j + e - 1)],
         status |-> IF panics = {} THEN "ok" ELSE "unwinding"]

\* ptr::drop_in_place of the slice (ptr, len), from element j on: the
\* destructors run in order; F holds the positions whose destructor panics.
\* After a first panic the rest of the slice is still dropped, as cleanup of
\* the drop glue; a second panic, raised inside that cleanup, aborts the
\* process on the spot, at element `fatal`.  This is so too when the caller
\* is unwinding already (`unwinding`): the first panic still unwinds out of
\* the glue, and it is the caller's cleanup frame that it cannot leave (see
\* drop).  Gives [log, status]: the destructor runs, and "ok", "unwinding"
\* (the slice's drop is left, or was entered, unwinding) or "abort".
drop_in_place(T, m, ptr, len, F, j, unwinding) ==
    LET panics == {k \in j .. len : k \in F}
        fatal == {k \in panics : \E q \in panics : q < k}
        last == IF fatal = {} THEN len
                ELSE CHOOSE k \in fatal : \A q \in fatal : k <= q
    IN  [log |-> [e \in 1 .. (last - j + 1) |-> DtorOf(T, m, ptr, F, j + e - 1)],
         status |-> IF fatal # {} THEN "abort"
                    ELSE IF unwinding \/ panics # {} THEN "unwinding"
                    ELSE "ok"]

\* A drop of every slot of the allocation, yielded or not.
drop_range_whole(T, self) ==
    [ptr |-> self.allocation_start,
     len |-> IF IsZst(T) THEN elements_len(T, self) ELSE allocation_len(T, self)]

\* The slice that drop hands to drop_in_place: [ptr, len].
drop_range(T, self) == [ptr |-> self.elements_start, len |-> elements_len(T, self)]

\* impl Drop for DropGuard: the allocation is rebuilt as a
\* Box<[ManuallyDrop<T>]> of allocation_len slots and dropped, which runs no
\* element destructor and hands the block back.  Gives [h, log].
guard_drop(T, self, h) ==
    LET bytes == allocation_len(T, self) * T.size
    IN  [h |-> Dealloc(h, self.allocation_start, bytes),
         log |-> <<FreeEvent(self.allocation_start, bytes)>>]

\* A destructor run of the log panicked.
Panicked(log) == \E e \in DOMAIN log : log[e].panic

\* A drop without the guard: the allocation is released on the normal path
\* only.
drop_unguarded(T, self, h, F, unwinding) ==
    LET r == [ptr |-> self.elements_start, len |-> elements_len(T, self)]
        d == drop_in_place(T, h.mem, r.ptr, r.len, F, 1, unwinding)
        bytes == allocation_len(T, self) * T.size
    IN  IF d.status = "abort"
        THEN [h |-> h, log |-> d.log, outcome |-> "aborted"]
        ELSE IF Panicked(d.log)
        THEN [h |-> h, log |-> d.log,
              outcome |-> IF unwinding THEN "aborted" ELSE "unwound"]
        ELSE [h |-> Dealloc(h, self.allocation_start, bytes),
              log |-> d.log \o <<FreeEvent(self.allocation_start, bytes)>>,
              outcome |-> "returned"]

\* A drop that releases the allocation first and destroys the elements
\* afterwards.
drop_release_first(T, self, h, F, unwinding) ==
    LET g == guard_drop(T, self, h)
        r == [ptr |-> self.elements_start, len |-> elements_len(T, self)]
        d == drop_in_place(T, g.h.mem, r.ptr, r.len, F, 1, unwinding)
    IN  [h |-> [g.h EXCEPT !.ub = @ \/ \E k \in DOMAIN d.log :
                                          ~IsZst(T) /\ d.log[k].obj = Uninit],
         log |-> g.log \o d.log,
         outcome |-> IF d.status = "abort" \/ (Panicked(d.log) /\ unwinding)
                     THEN "aborted"
                     ELSE IF Panicked(d.log) THEN "unwound" ELSE "returned"]

\* impl Drop for SmallIter: the guard is armed, the remaining elements are
\* dropped in place, and the guard runs when the scope is left, by return or
\* by unwinding.  An abort inside drop_in_place leaves no scope.
\* `unwinding`: the drop runs while the thread unwinds from a panic of the
\* caller; a destructor's panic then still leaves drop by unwinding, guard
\* included, and the process aborts when it reaches the caller's cleanup
\* frame.  Gives [h, log, outcome]; the outcome is how the drop ended:
\* "returned", "unwound" (a destructor's panic goes on to the caller) or
\* "aborted".
drop(T, self, h, F, unwinding) ==
    LET r == drop_range(T, self)
        d == drop_in_place(T, h.mem, r.ptr, r.len, F, 1, unwinding)
        hd == [h EXCEPT !.ub = @ \/ \E k \in DOMAIN d.log :
                                      ~IsZst(T) /\ d.log[k].obj = Uninit]
        g == guard_drop(T, self, hd)
    IN  IF d.status = "abort"
        THEN [h |-> hd, log |-> d.log, outcome |-> "aborted"]
        ELSE [h |-> g.h, log |-> d.log \o g.log,
              outcome |-> IF ~Panicked(d.log) THEN "returned"
                          ELSE IF unwinding THEN "aborted" ELSE "unwound"]

\* ---------------------------------------------------------------- state
NoIter == [elements_start |-> 0, allocation_start |-> 0, end |-> 0]
NoType == [size |-> 0, align |-> 1]
NoSrc == [kind |-> "none", cap |-> 0, of |-> <<>>]

Init ==
    /\ ty = [i \in Iters |-> NoType]
    /\ life = [i \in Iters |-> "none"]
    /\ it = [i \in Iters |-> NoIter]
    /\ blocks = <<>>
    /\ mem = [a \in Addr |-> Uninit]
    /\ objs = <<>>
    /\ ub = FALSE
    /\ aborted = FALSE
    /\ orig = [i \in Iters |-> <<>>]
    /\ src = [i \in Iters |-> NoSrc]
    /\ own = [i \in Iters |-> 0]
    /\ rets = [i \in Iters |-> <<>>]
    /\ dropLog = [i \in Iters |-> <<>>]
    /\ outcome = [i \in Iters |-> "none"]
    /\ written = [i \in Iters |-> <<>>]
    /\ panicking = [i \in Iters |-> FALSE]

\* Iterator i comes to life as `self`, built from the elements `elems`, with
\* the heap left as h.
Construct(i, T, self, h, elems, how) ==
    /\ ty' = [ty EXCEPT ![i] = T]
    /\ life' = [life EXCEPT ![i] = "active"]
    /\ it' = [it EXCEPT ![i] = self]
    /\ blocks' = h.blocks
    /\ mem' = h.mem
    /\ objs' = h.objs
    /\ ub' = h.ub
    /\ orig' = [orig EXCEPT ![i] = elems]
    /\ src' = [src EXCEPT ![i] = how]
    /\ own' = [own EXCEPT ![i] = BlockAt(h.blocks, self.allocation_start)]
    /\ written' = [written EXCEPT ![i] = elems]
    /\ UNCHANGED <<aborted, rets, dropLog, outcome, panicking>>

\* let iter = boxed.into_small_iter();
BoxIntoSmallIter(T, vals) ==
    /\ ~aborted
    /\ life[1] = "none"
    /\ \E base \in IF Len(vals) * T.size = 0 THEN {0}
                   ELSE AllocBases(blocks, Len(vals) * T.size, T.align) :
         LET b == MakeArray(Heap, T, vals, Len(vals), base)
         IN  Construct(1, T, into_small_iter(T, b.ptr, Len(vals)), b.h, b.elems,
                       [kind |-> "box", cap |-> Len(vals), of |-> <<>>])

\* let iter = vec.into_small_iter();   (impl IntoSmallIterExt for Vec<T>)
VecIntoSmallIter(T, vals, cap) ==
    /\ ~aborted
    /\ life[1] = "none"
    /\ \E base \in IF cap * T.size = 0 THEN {0}
                   ELSE AllocBases(blocks, cap * T.size, T.align) :
         LET v == MakeArray(Heap, T, vals, cap, base)
         IN  \E newbase \in ShrinkBases(v.h, T, v.ptr, Len(vals), cap) :
               LET b == into_boxed_slice(v.h, T, v.ptr, Len(vals), cap, newbase)
               IN  Construct(1, T, into_small_iter(T, b.ptr, Len(vals)), b.h,
                             v.elems, [kind |-> "vec", cap |-> cap, of |-> <<>>])

\* let iter = SmallIter::<T>::default();
DefaultIter(T) ==
    /\ ~aborted
    /\ life[1] = "none"
    /\ LET b == MakeArray(Heap, T, <<>>, 0, 0)
       IN  Construct(1, T, into_small_iter(T, b.ptr, 0), b.h, b.elems,
                     [kind |-> "default", cap |-> 0, of |-> <<>>])

\* The successful yields among the returns r.
Yields_(r) == Cardinality({j \in DOMAIN r : r[j].some})

\* let c = iter.clone();
CloneIter(i, j) ==
    /\ ~aborted
    /\ life[i] = "active"
    /\ life[j] = "none"
    /\ \E base \in IF clone_bytes(ty[i], it[i]) = 0 THEN {0}
                   ELSE AllocBases(blocks, clone_bytes(ty[i], it[i]), ty[i].align) :
         LET c == clone(ty[i], it[i], Heap, base)
         IN  Construct(j, ty[i], c.self, c.h, c.elems,
                       [kind |-> "clone", cap |-> Len(c.elems),
                        of |-> SubSeq(written[i], Yields_(rets[i]) + 1,
                                      Len(written[i]))])

\* A next that hands the allocation back as soon as the last element is
\* gone.
Next_releasing(i) ==
    /\ ~aborted
    /\ life[i] = "active"
    /\ Len(rets[i]) < Len(orig[i]) + ExtraCalls
    /\ LET r == next(ty[i], it[i], mem)
           h == IF /\ r.self.elements_start = r.self.end
                   /\ own[i] # 0
                   /\ blocks[own[i]].frees = 0
                THEN guard_drop(ty[i], r.self, Heap).h
                ELSE Heap
       IN  /\ it' = [it EXCEPT ![i] = r.self]
           /\ rets' = [rets EXCEPT ![i] = Append(@, r.ret)]
           /\ ub' = (h.ub \/ (r.ret.some /\ r.ret.val = Uninit))
           /\ blocks' = h.blocks
           /\ mem' = h.mem
    /\ UNCHANGED <<ty, life, objs, aborted, orig, src, own, dropLog, outcome,
                   written, panicking>>

\* iter.next()
Next_(i) ==
    /\ ~aborted
    /\ life[i] = "active"
    /\ Len(rets[i]) < Len(orig[i]) + ExtraCalls
    /\ LET r == next(ty[i], it[i], mem)
       IN  /\ it' = [it EXCEPT ![i] = r.self]
           /\ rets' = [rets EXCEPT ![i] = Append(@, r.ret)]
           /\ ub' = (ub \/ (r.ret.some /\ r.ret.val = Uninit))
    /\ UNCHANGED <<ty, life, blocks, mem, objs, aborted, orig, src, own, dropLog,
                   outcome, written, panicking>>

\* The elements stored through the views so far: every object that is not an
\* element of a source array.
Stores ==
    Len(objs) - Len(orig[1]) * (IF IsZst(ty[1]) THEN 0 ELSE 1)
              - Len(orig[2]) * (IF IsZst(ty[2]) THEN 0 ELSE 1)

\* iter.as_mut_slice()[p - 1] = value;   the assignment destroys the element
\* in the slot and stores a new one with payload v there.  A value of a
\* zero-sized type is stored nowhere.
WriteMut(i, p, v) ==
    /\ ~aborted
    /\ life[i] = "active"
    /\ p \in 1 .. as_mut_slice(ty[i], it[i]).len
    /\ IF IsZst(ty[i])
       THEN v = ZstValue /\ UNCHANGED <<mem, objs, written, ub>>
       ELSE /\ v \in Vals
            /\ Stores < MaxWrites
            /\ LET a == as_mut_slice(ty[i], it[i]).ptr + (p - 1) * ty[i].size
               IN  /\ mem' = [mem EXCEPT ![a] = Len(objs) + 1]
                   /\ ub' = (ub \/ mem[a] = Uninit)
            /\ objs' = Append(objs, v)
            /\ written' = [written EXCEPT ![i][Yields_(rets[i]) + p] = Len(objs) + 1]
    /\ UNCHANGED <<ty, life, it, blocks, aborted, orig, src, own, rets, dropLog,
                   outcome, panicking>>

\* drop(iter), with the destructors at the positions F of the remaining
\* elements panicking; u: the iterator goes out of scope while the thread
\* unwinds from a panic of the caller.
DropIter(i, F, u) ==
    /\ ~aborted
    /\ life[i] = "active"
    /\ F \subseteq 1 .. elements_len(ty[i], it[i])
    /\ LET d == drop(ty[i], it[i], Heap, F, u)
       IN  /\ life' = [life EXCEPT ![i] = "dropped"]
           /\ panicking' = [panicking EXCEPT ![i] = u]
           /\ blocks' = d.h.blocks
           /\ mem' = d.h.mem
           /\ ub' = d.h.ub
           /\ dropLog' = [dropLog EXCEPT ![i] = d.log]
           /\ outcome' = [outcome EXCEPT ![i] = d.outcome]
           /\ aborted' = (d.outcome = "aborted")
    /\ UNCHANGED <<ty, it, objs, orig, src, own, rets, written>>

Next ==
    \/ \E T \in Types : \E vals \in InputArrays(T) : BoxIntoSmallIter(T, vals)
    \/ \E T \in Types : \E vals \in InputArrays(T) :
         \E cap \in Len(vals) .. (Len(vals) + MaxExtraCap) :
           VecIntoSmallIter(T, vals, cap)
    \/ \E T \in Types : DefaultIter(T)
    \/ CloneIter(1, 2)
    \/ \E i \in Iters : Next_(i)
    \/ \E i \in Iters : \E p \in 1 .. MaxLen : \E v \in Vals \cup {ZstValue} :
         WriteMut(i, p, v)
    \/ \E i \in Iters : \E F \in SUBSET (1 .. MaxLen) : \E u \in BOOLEAN :
         DropIter(i, F, u)

Spec == Init /\ [][Next]_vars

\* ------------------------------------------------- two runs side by side
\* The same program run for a sized T (iterator 1) and for a zero-sized T
\* (iterator 2): an array of the same length is converted, and the same
\* calls are made on both.
EmptyHeap == [blocks |-> <<>>, mem |-> [a \in Addr |-> Uninit], objs |-> <<>>,
              ub |-> FALSE]
SizedT == [size |-> ElemSize, align |-> ElemSize]

InitPair ==
    \E vals \in InputArrays(SizedT) : \E Tz \in {T \in Types : IsZst(T)} :
      \E base \in IF Len(vals) = 0 THEN {0}
                  ELSE AllocBases(<<>>, Len(vals) * ElemSize, ElemSize) :
        LET b == MakeArray(EmptyHeap, SizedT, vals, Len(vals), base)
            z == MakeArray(b.h, Tz, [j \in 1 .. Len(vals) |-> ZstValue],
                           Len(vals), 0)
            s1 == into_small_iter(SizedT, b.ptr, Len(vals))
            s2 == into_small_iter(Tz, z.ptr, Len(vals))
        IN  /\ ty = [i \in Iters |-> IF i = 1 THEN SizedT ELSE Tz]
            /\ life = [i \in Iters |-> "active"]
            /\ it = [i \in Iters |-> IF i = 1 THEN s1 ELSE s2]
            /\ blocks = z.h.blocks
            /\ mem = z.h.mem
            /\ objs = z.h.objs
            /\ ub = z.h.ub
            /\ aborted = FALSE
            /\ orig = [i \in Iters |-> IF i = 1 THEN b.elems ELSE z.elems]
            /\ src = [i \in Iters |-> [kind |-> "box", cap |-> Len(vals),
                                       of |-> <<>>]]
            /\ own = [i \in Iters |-> BlockAt(z.h.blocks,
                                              IF i = 1 THEN s1.allocation_start
                                              ELSE s2.allocation_start)]
            /\ rets = [i \in Iters |-> <<>>]
            /\ dropLog = [i \in Iters |-> <<>>]
            /\ outcome = [i \in Iters |-> "none"]
            /\ written = [i \in Iters |-> IF i = 1 THEN b.elems ELSE z.elems]
            /\ panicking = [i \in Iters |-> FALSE]

\* next() on both
PairNext ==
    /\ \A i \in Iters : life[i] = "active"
    /\ Len(rets[1]) < Len(orig[1]) + ExtraCalls
    /\ it' = [i \in Iters |-> next(ty[i], it[i], mem).self]
    /\ rets' = [i \in Iters |-> Append(rets[i], next(ty[i], it[i], mem).ret)]
    /\ ub' = (ub \/ \E i \in Iters : /\ next(ty[i], it[i], mem).ret.some
                                     /\ next(ty[i], it[i], mem).ret.val = Uninit)
    /\ UNCHANGED <<ty, life, blocks, mem, objs, aborted, orig, src, own, dropLog,
                   outcome, written, panicking>>

\* drop() of both, the destructors at the positions F panicking in both;
\* u: both go out of scope while the caller unwinds
PairDrop(F, u) ==
    /\ \A i \in Iters : life[i] = "active"
    /\ F \subseteq 1 .. elements_len(ty[1], it[1])
    /\ LET d1 == drop(ty[1], it[1], Heap, F, u)
           d2 == drop(ty[2], it[2], d1.h, F, u)
       IN  /\ life' = [i \in Iters |-> "dropped"]
           /\ panicking' = [i \in Iters |-> u]
           /\ blocks' = d2.h.blocks
           /\ mem' = d2.h.mem
           /\ ub' = d2.h.ub
           /\ dropLog' = [i \in Iters |-> IF i = 1 THEN d1.log ELSE d2.log]
           /\ outcome' = [i \in Iters |-> IF i = 1 THEN d1.outcome ELSE d2.outcome]
           /\ aborted' = (d1.outcome = "aborted" \/ d2.outcome = "aborted")
    /\ UNCHANGED <<ty, it, objs, orig, src, own, rets, written>>

NextPair ==
    \/ PairNext
    \/ \E F \in SUBSET (1 .. MaxLen) : \E u \in BOOLEAN : PairDrop(F, u)

SpecPair == InitPair /\ [][NextPair]_vars

\* ------------------------------------------ zero-sized arrays of any length
\* A boxed slice of a zero-sized type can have any length a word can hold;
\* it is converted, iterated and dropped.
ZstTypes == {T \in Types : IsZst(T)}

NextWrap ==
    \/ \E T \in ZstTypes : \E n \in 0 .. (WordMod - 1) :
         BoxIntoSmallIter(T, [j \in 1 .. n |-> ZstValue])
    \/ Next_(1)
    \/ \E F \in SUBSET (1 .. MaxLen) : \E u \in BOOLEAN : DropIter(1, F, u)

SpecWrap == Init /\ [][NextWrap]_vars

\* ------------------------------------------------------ one iterator
\* A program with one iterator: a boxed slice or a Vec is converted (or the
\* default taken), and the iterator is advanced, written through
\* as_mut_slice and dropped.
NextSolo ==
    \/ \E T \in Types : \E vals \in InputArrays(T) : BoxIntoSmallIter(T, vals)
    \/ \E T \in Types : \E vals \in InputArrays(T) :
         \E cap \in Len(vals) .. (Len(vals) + MaxExtraCap) :
           VecIntoSmallIter(T, vals, cap)
    \/ \E T \in Types : DefaultIter(T)
    \/ Next_(1)
    \/ \E p \in 1 .. MaxLen : \E v \in Vals \cup {ZstValue} : WriteMut(1, p, v)
    \/ \E F \in SUBSET (1 .. MaxLen) : \E u \in BOOLEAN : DropIter(1, F, u)

SpecSolo == Init /\ [][NextSolo]_vars

\* ---------------------------------------------- an iterator and its clone
\* A boxed slice is converted and the iterator cloned at some point; each of
\* the two is advanced, written through as_mut_slice and dropped, in any
\* interleaving.
NextClone ==
    \/ \E T \in Types : \E vals \in InputArrays(T) : BoxIntoSmallIter(T, vals)
    \/ CloneIter(1, 2)
    \/ \E i \in Iters : Next_(i)
    \/ \E i \in Iters : \E p \in 1 .. MaxLen : \E v \in Vals \cup {ZstValue} :
         WriteMut(i, p, v)
    \/ \E i \in Iters : \E F \in SUBSET (1 .. MaxLen) : \E u \in BOOLEAN :
         DropIter(i, F, u)

SpecClone == Init /\ [][NextClone]_vars

\* ------------------------------------------------------------ properties
\* What the properties below speak about.
Count(i) == Len(orig[i])
Yields(i) == Cardinality({j \in DOMAIN rets[i] : rets[i][j].some})
Remaining(i) == SubSeq(written[i], Yields(i) + 1, Count(i))
Overwritten(i) == {j \in DOMAIN orig[i] : written[i][j] # orig[i][j]}
Sized(i) == ~IsZst(ty[i])
Dtors(i) == {e \in DOMAIN dropLog[i] : dropLog[i][e].kind = "dtor"}
Frees(i) == {e \in DOMAIN dropLog[i] : dropLog[i][e].kind = "free"}
Panics(i) == {e \in Dtors(i) : dropLog[i][e].panic}
DtorsOf(i, x) == {e \in Dtors(i) : dropLog[i][e].obj = x}
\* The drop of iterator i ran to its end: it was not cut short by an abort
\* among the destructors.
Finished(i) == life[i] = "dropped" /\ Cardinality(Panics(i)) < 2

\* The allocation handed to iterator i was released once, whole, by the one
\* release of its drop; an iterator without allocation released nothing.
ReleasedOnce(i) ==
    /\ Cardinality(Frees(i)) = 1
    /\ \A e \in Frees(i) :
         IF own[i] = 0 THEN dropLog[i][e].size = 0
         ELSE /\ dropLog[i][e].at = blocks[own[i]].base
              /\ dropLog[i][e].size = blocks[own[i]].size
    /\ own[i] # 0 => blocks[own[i]].frees = 1
    /\ ~ub

\* C1: the j-th call to next returns the j-th element of the source array
\* for j up to its length n (the element stored there through the view, if
\* one was), and None from then on, however often next is called.
C1_NextYieldsInOrderThenNone ==
    \A i \in Iters : \A j \in DOMAIN rets[i] :
        /\ rets[i][j].some <=> j <= Count(i)
        /\ j <= Count(i) =>
             rets[i][j].val = IF j \in Overwritten(i) THEN written[i][j]
                              ELSE orig[i][j]
        /\ j > Count(i) => rets[i][j] = None

C1_Witness ==
    \E i \in Iters :
        /\ Sized(i)
        /\ Count(i) >= 2
        /\ Len(rets[i]) = Count(i) + ExtraCalls
        /\ ~rets[i][Len(rets[i])].some
        /\ ~rets[i][Len(rets[i]) - 1].some

\* C2: in every state size_hint is (r, Some(r)) with r the source length
\* minus the successful yields so far; r is 0 once exhausted and stays 0.
C2_SizeHintExact ==
    \A i \in Iters : life[i] = "active" =>
        /\ size_hint(ty[i], it[i]) =
               <<Count(i) - Yields(i), Some(Count(i) - Yields(i))>>
        /\ Len(rets[i]) >= Count(i) => size_hint(ty[i], it[i]) = <<0, Some(0)>>

C2_Witness ==
    \E i \in Iters :
        /\ life[i] = "active"
        /\ Count(i) >= 2
        /\ Len(rets[i]) = Count(i) + ExtraCalls
        /\ size_hint(ty[i], it[i]) = <<0, Some(0)>>

\* C3: after k yields and any number of exhausted calls, as_slice is the
\* not-yet-yielded suffix of the source array, elements k+1..n in order, and
\* holds no element that was yielded.
C3_ViewIsUnyieldedSuffix ==
    \A i \in Iters : life[i] = "active" =>
        /\ as_slice(ty[i], it[i], mem) = Remaining(i)
        /\ Sized(i) =>
             \A j \in DOMAIN rets[i] : \A p \in DOMAIN as_slice(ty[i], it[i], mem) :
                 rets[i][j].some => as_slice(ty[i], it[i], mem)[p] # rets[i][j].val

C3_Witness ==
    \E i \in Iters :
        /\ life[i] = "active"
        /\ Sized(i)
        /\ Yields(i) >= 1
        /\ Len(as_slice(ty[i], it[i], mem)) >= 2

\* C4: a drop after k of n yields runs the destructor of each of the n-k
\* unyielded elements exactly once, of no yielded element, and releases the
\* backing memory exactly once.
C4_DropDestructsRemainingOnce ==
    \A i \in Iters : Finished(i) =>
        /\ Cardinality(Dtors(i)) = Count(i) - Yields(i)
        /\ Sized(i) =>
             /\ \A j \in (Yields(i) + 1) .. Count(i) :
                    Cardinality(DtorsOf(i, written[i][j])) = 1
             /\ \A j \in 1 .. Yields(i) : DtorsOf(i, written[i][j]) = {}
        /\ ReleasedOnce(i)

C4_Witness ==
    \E i \in Iters :
        /\ Finished(i)
        /\ outcome[i] = "returned"
        /\ Sized(i)
        /\ Yields(i) >= 1
        /\ Count(i) - Yields(i) >= 2
        /\ own[i] # 0

\* C5 as stated: whenever a destructor of a remaining element panics during
\* the drop of an iterator that holds an allocation, the memory is still
\* released exactly once and the panic reaches the caller.
C5_AnyPanicStillReleases ==
    \A i \in Iters : (life[i] = "dropped" /\ own[i] # 0 /\ Panics(i) # {}) =>
        /\ outcome[i] = "unwound"
        /\ ReleasedOnce(i)

\* C5 amended: when the destructor of exactly one remaining element panics
\* during the drop, the memory is released exactly once, after the last
\* destructor run and with no destructor run by the release; the panic
\* reaches the caller, unless the drop itself runs while the thread unwinds,
\* where the process aborts after the release.
C5_OnePanicStillReleases ==
    \A i \in Iters : (life[i] = "dropped" /\ Cardinality(Panics(i)) = 1) =>
        /\ outcome[i] = IF panicking[i] THEN "aborted" ELSE "unwound"
        /\ ReleasedOnce(i)
        /\ \A f \in Frees(i) : \A e \in Dtors(i) : e < f
        /\ Cardinality(Dtors(i)) = Count(i) - Yields(i)

C5_Witness ==
    \E i \in Iters :
        /\ life[i] = "dropped"
        /\ Cardinality(Panics(i)) = 1
        /\ ~panicking[i]
        /\ Sized(i)
        /\ own[i] # 0
        /\ Yields(i) >= 1
        /\ outcome[i] = "unwound"

\* C6: when the destructor of one remaining element panics during the drop,
\* every remaining element after it still has its destructor run exactly
\* once; none is leaked and none is destructed twice.
C6_OnePanicLeaksNothing ==
    \A i \in Iters : (life[i] = "dropped" /\ Cardinality(Panics(i)) = 1) =>
        \A e \in Panics(i) :
            /\ Cardinality({d \in Dtors(i) : d > e}) =
                   Count(i) - Yields(i) - Cardinality({d \in Dtors(i) : d <= e})
            /\ Sized(i) =>
                 /\ \A j \in (Yields(i) + 1) .. Count(i) :
                        Cardinality(DtorsOf(i, written[i][j])) = 1
                 /\ \A d \in Dtors(i) :
                        dropLog[i][d].obj = written[i][Yields(i) + d]

C6_Witness ==
    \E i \in Iters :
        /\ life[i] = "dropped"
        /\ Sized(i)
        /\ Cardinality(Panics(i)) = 1
        /\ panicking[i]
        /\ \E e \in Panics(i) : Cardinality({d \in Dtors(i) : d > e}) >= 2

\* C7: driven by the same calls, an iterator over n zero-sized elements and
\* one over n sized elements give the same results: Some or None per call to
\* next, the same size_hint, the same view length, the same number of
\* destructor runs and the same outcome of drop; the zero-sized one never
\* reads, owns or releases memory.
SomePattern(i) == [j \in DOMAIN rets[i] |-> rets[i][j].some]
PanicPattern(i) == [e \in Dtors(i) |-> dropLog[i][e].panic]

C7_ZstBehavesAsSized ==
    /\ life[1] = life[2]
    /\ SomePattern(1) = SomePattern(2)
    /\ life[1] = "active" =>
         /\ size_hint(ty[1], it[1]) = size_hint(ty[2], it[2])
         /\ Len(as_slice(ty[1], it[1], mem)) = Len(as_slice(ty[2], it[2], mem))
    /\ life[1] = "dropped" =>
         /\ Cardinality(Dtors(1)) = Cardinality(Dtors(2))
         /\ PanicPattern(1) = PanicPattern(2)
         /\ outcome[1] = outcome[2]
         /\ Cardinality(Frees(1)) = Cardinality(Frees(2))
    /\ own[2] = 0
    /\ \A b \in DOMAIN blocks : b = own[1]
    /\ \A e \in Frees(2) : dropLog[2][e].size = 0
    /\ \A j \in DOMAIN rets[2] : rets[2][j].some => rets[2][j].val = ZstValue
    /\ ~ub

C7_Witness ==
    /\ IsZst(ty[2]) /\ Sized(1)
    /\ Count(1) >= 2 /\ Count(2) = Count(1)
    /\ Yields(2) >= 1
    /\ Len(rets[2]) >= 1
    /\ life[2] = "dropped"
    /\ Cardinality(Dtors(2)) >= 1
    /\ blocks[own[1]].frees = 1

\* C8: a clone has an allocation and elements of its own, holding clones of
\* the remaining elements of its source in order; calls to next on one
\* iterator, or its drop, leave the other's struct, view, count and block as
\* they were, and each allocation is released once, by its own iterator.
IsClone(j) == life[j] # "none" /\ src[j].kind = "clone"

CloneState ==
    /\ IsClone(2) =>
         /\ Count(2) <= Count(1)
         /\ Count(2) = Len(src[2].of)
         /\ \A k \in 1 .. Count(2) :
              /\ ValOf(Heap, orig[2][k]) = ValOf(Heap, src[2].of[k])
              /\ (Count(1) - Count(2) + k) \notin Overwritten(1) =>
                   src[2].of[k] = orig[1][Count(1) - Count(2) + k]
         /\ \A k \in DOMAIN rets[2] : (rets[2][k].some /\ k \notin Overwritten(2)) =>
              /\ k <= Count(2)
              /\ ValOf(Heap, rets[2][k].val) = ValOf(Heap, src[2].of[k])
         /\ Sized(2) =>
              /\ \A k \in 1 .. Count(2) : \A l \in 1 .. Count(1) :
                     /\ written[2][k] # written[1][l]
                     /\ orig[2][k] # orig[1][l]
              /\ Count(2) > 0 => (own[2] # 0 /\ own[2] # own[1])
    /\ \A i \in Iters :
         /\ life[i] = "active" =>
              /\ as_slice(ty[i], it[i], mem) = Remaining(i)
              /\ elements_len(ty[i], it[i]) = Count(i) - Yields(i)
              /\ own[i] # 0 =>
                   /\ blocks[own[i]].frees = 0
                   /\ blocks[own[i]].base = it[i].allocation_start
                   /\ blocks[own[i]].size = it[i].end - it[i].allocation_start
         /\ Finished(i) => ReleasedOnce(i)
    /\ ~ub

\* A step made on iterator i (a next, a store, its drop, its construction)
\* leaves every other live iterator alone; the elements a clone is made of
\* are the ones its source's view shows at that moment.
FrameStep ==
    /\ \A i \in Iters : \A j \in Iters \ {i} :
        ((rets'[i] # rets[i] \/ life'[i] # life[i] \/ written'[i] # written[i])
           /\ life[j] = "active") =>
            /\ life'[j] = life[j]
            /\ it'[j] = it[j]
            /\ as_slice(ty[j], it[j], mem)' = as_slice(ty[j], it[j], mem)
            /\ own[j] # 0 => blocks'[own[j]] = blocks[own[j]]
    /\ (life[2] = "none" /\ life'[2] = "active") =>
            src'[2].of = as_slice(ty[1], it[1], mem)

C8_CloneIsIndependent == []CloneState /\ [][FrameStep]_vars

C8_Witness ==
    /\ IsClone(2)
    /\ Sized(2)
    /\ Count(1) = 3 /\ Count(2) = 2
    /\ life[1] = "dropped" /\ outcome[1] = "returned"
    /\ life[2] = "active"
    /\ Yields(2) = 1
    /\ Len(as_slice(ty[2], it[2], mem)) = 1

\* C9: an iterator converted from a Vec of length n and capacity c >= n
\* holds an allocation of exactly n slots: [allocation_start, end) is the
\* whole block, nothing of the Vec's buffer is left over, and the drop
\* releases a block of exactly the size held, whatever c and the number of
\* yields.
C9_VecShrunkToFit ==
    \A i \in Iters : (src[i].kind = "vec" /\ Sized(i)) =>
        /\ it[i].end - it[i].allocation_start = Count(i) * ty[i].size
        /\ allocation_len(ty[i], it[i]) = Count(i)
        /\ IF Count(i) = 0 THEN own[i] = 0
           ELSE /\ own[i] # 0
                /\ blocks[own[i]].base = it[i].allocation_start
                /\ blocks[own[i]].size = Count(i) * ty[i].size
        /\ \A b \in Live(blocks) : \E j \in Iters : own[j] = b
        /\ (life[i] = "active" /\ own[i] # 0) => blocks[own[i]].frees = 0
        /\ Finished(i) => ReleasedOnce(i)
        /\ ~ub

C9_Witness ==
    \E i \in Iters :
        /\ src[i].kind = "vec" /\ Sized(i)
        /\ Count(i) >= 2
        /\ src[i].cap > Count(i)
        /\ Yields(i) >= 1
        /\ Finished(i)
        /\ blocks[own[i]].frees = 1

\* C11: for a sized T, in every state reached from the construction by calls
\* to next, allocation_start <= elements_start <= end, elements_start is a
\* whole number of elements after allocation_start, and every slot of
\* [elements_start, end) holds a live element that was not yielded.
RemainingSlots(i) ==
    {a \in it[i].elements_start .. (it[i].end - 1) :
        (a - it[i].elements_start) % ty[i].size = 0}

C11_SizedPointerOrder ==
    \A i \in Iters : (Sized(i) /\ life[i] = "active") =>
        /\ it[i].allocation_start <= it[i].elements_start
        /\ it[i].elements_start <= it[i].end
        /\ (it[i].elements_start - it[i].allocation_start) % ty[i].size = 0
        /\ it[i].elements_start - it[i].allocation_start = Yields(i) * ty[i].size
        /\ (it[i].end - it[i].elements_start) % ty[i].size = 0
        /\ \A a \in RemainingSlots(i) :
             /\ a \in Addr
             /\ mem[a] # Uninit
             /\ \E j \in (Yields(i) + 1) .. Count(i) : mem[a] = written[i][j]
             /\ \A j \in DOMAIN rets[i] : rets[i][j] # Some(mem[a])
             /\ own[i] # 0
             /\ blocks[own[i]].frees = 0
             /\ a >= blocks[own[i]].base
             /\ a + ty[i].size <= blocks[own[i]].base + blocks[own[i]].size
        /\ Cardinality(RemainingSlots(i)) = Count(i) - Yields(i)

C11_Witness ==
    \E i \in Iters :
        /\ Sized(i) /\ life[i] = "active"
        /\ Yields(i) >= 1
        /\ it[i].allocation_start < it[i].elements_start
        /\ it[i].elements_start < it[i].end
        /\ Cardinality(RemainingSlots(i)) >= 2

\* C12: for a sized T a successful next moves elements_start forward by one
\* element and leaves allocation_start and end alone; a next on an exhausted
\* iterator leaves all three fields alone; allocation_start and end keep
\* their values from the construction on, through the drop.
NextStepSized ==
    \A i \in Iters : (Sized(i) /\ life[i] # "none") =>
        /\ it'[i].allocation_start = it[i].allocation_start
        /\ it'[i].end = it[i].end
        /\ rets'[i] # rets[i] =>
             IF it[i].elements_start = it[i].end
             THEN it'[i] = it[i] /\ ~rets'[i][Len(rets'[i])].some
             ELSE /\ it'[i].elements_start = it[i].elements_start + ty[i].size
                  /\ rets'[i][Len(rets'[i])].some

ExtentAsConstructed ==
    \A i \in Iters : (Sized(i) /\ life[i] # "none") =>
        /\ it[i].end = it[i].allocation_start + Count(i) * ty[i].size
        /\ own[i] # 0 => it[i].allocation_start = blocks[own[i]].base
        /\ own[i] = 0 => it[i].allocation_start = dangling(ty[i])

C12_NextMovesOnlyCursor == []ExtentAsConstructed /\ [][NextStepSized]_vars

C12_Witness ==
    \E i \in Iters :
        /\ Sized(i) /\ life[i] = "active"
        /\ Count(i) >= 2
        /\ Len(rets[i]) > Count(i)
        /\ it[i].elements_start = it[i].end
        /\ it[i].allocation_start = blocks[own[i]].base
        /\ it[i].end = blocks[own[i]].base + blocks[own[i]].size

\* C13: the drop of a sized iterator after k of n yields releases the whole
\* allocation of n slots from allocation_start (allocation_len = n), not the
\* n-k remaining slots, whatever k is.
C13_WholeAllocationReleased ==
    \A i \in Iters : (Sized(i) /\ life[i] # "none") =>
        /\ allocation_len(ty[i], it[i]) = Count(i)
        /\ Finished(i) =>
             \A e \in Frees(i) :
                 /\ dropLog[i][e].at = it[i].allocation_start
                 /\ dropLog[i][e].at = it[i].elements_start - Yields(i) * ty[i].size
                 /\ dropLog[i][e].size = Count(i) * ty[i].size
                 /\ own[i] # 0 => /\ blocks[own[i]].frees = 1
                                  /\ blocks[own[i]].base = dropLog[i][e].at
                                  /\ blocks[own[i]].size = dropLog[i][e].size
        /\ Finished(i) => Frees(i) # {}
        /\ ~ub

C13_Witness ==
    \E i \in Iters :
        /\ Sized(i) /\ Finished(i)
        /\ Count(i) = 3 /\ Yields(i) = 2
        /\ \E e \in Frees(i) : dropLog[i][e].size = 3 * ty[i].size
        /\ blocks[own[i]].frees = 1

\* C15: the drop destroys the remaining elements in forward order, and
\* releases the memory only after the destruction of the elements finished
\* or failed: no destructor runs after the release.
C15_ElementsThenMemory ==
    \A i \in Iters : life[i] = "dropped" =>
        /\ \A e \in Dtors(i) :
             /\ e <= Count(i) - Yields(i)
             /\ \A d \in 1 .. e : d \in Dtors(i)
             /\ dropLog[i][e].at = it[i].elements_start + (e - 1) * ty[i].size
             /\ dropLog[i][e].obj = written[i][Yields(i) + e]
        /\ \A f \in Frees(i) :
             /\ f = Len(dropLog[i])
             /\ \A e \in Dtors(i) : e < f
             /\ Cardinality(Dtors(i)) = Count(i) - Yields(i)
        /\ Finished(i) <=> Frees(i) # {}

C15_Witness ==
    \E i \in Iters :
        /\ Sized(i) /\ life[i] = "dropped"
        /\ Yields(i) >= 1
        /\ Cardinality(Dtors(i)) >= 2
        /\ Panics(i) # {}
        /\ \E f \in Frees(i) : f = Len(dropLog[i]) /\ dropLog[i][f].size > 0

\* C16: reaching the end releases nothing: after any calls to next, past
\* the end too, the iterator is alive and its allocation is live; an
\* allocation is released only by the drop of its iterator, and a dropped
\* iterator is never operated on again.
OwnsWhileActive ==
    \A i \in Iters : life[i] = "active" =>
        /\ dropLog[i] = <<>>
        /\ outcome[i] = "none"
        /\ own[i] # 0 => blocks[own[i]].frees = 0

OnlyDropReleases ==
    \A i \in Iters :
        /\ rets'[i] # rets[i] =>
             /\ life[i] = "active" /\ life'[i] = "active"
             /\ blocks' = blocks
             /\ dropLog' = dropLog
        /\ (own[i] # 0 /\ blocks[own[i]].frees = 0 /\ blocks'[own[i]].frees # 0) =>
             /\ life[i] = "active" /\ life'[i] = "dropped"
             /\ Frees(i)' # {}
        /\ life[i] = "dropped" =>
             /\ life'[i] = "dropped"
             /\ it'[i] = it[i]
             /\ rets'[i] = rets[i]
             /\ dropLog'[i] = dropLog[i]
             /\ own[i] # 0 => blocks'[own[i]] = blocks[own[i]]

C16_OnlyDropReleases == []OwnsWhileActive /\ [][OnlyDropReleases]_vars

C16_Witness ==
    \E i \in Iters :
        /\ Sized(i) /\ life[i] = "active"
        /\ Count(i) >= 2
        /\ Len(rets[i]) = Count(i) + ExtraCalls
        /\ own[i] # 0
        /\ blocks[own[i]].frees = 0

\* C17: a default-constructed iterator is empty and holds no allocation:
\* every next returns None, size_hint is (0, Some(0)), as_slice is empty,
\* and its drop runs no destructor and releases no memory (allocation_len is
\* 0), for sized and zero-sized T.
C17_DefaultIsEmpty ==
    \A i \in Iters : src[i].kind = "default" =>
        /\ Count(i) = 0
        /\ own[i] = 0
        /\ blocks = <<>>
        /\ allocation_len(ty[i], it[i]) = 0
        /\ \A j \in DOMAIN rets[i] : rets[i][j] = None
        /\ life[i] = "active" =>
             /\ size_hint(ty[i], it[i]) = <<0, Some(0)>>
             /\ as_slice(ty[i], it[i], mem) = <<>>
        /\ life[i] = "dropped" =>
             /\ Dtors(i) = {}
             /\ outcome[i] = "returned"
             /\ Len(dropLog[i]) = 1
             /\ \A e \in Frees(i) : dropLog[i][e].size = 0
        /\ ~ub

C17_Witness ==
    \E i \in Iters :
        /\ src[i].kind = "default"
        /\ Sized(i)
        /\ Len(rets[i]) = ExtraCalls
        /\ life[i] = "dropped"
        /\ Frees(i) # {}

\* C14: for a zero-sized T, allocation_start and elements_start are the
\* placeholder address in every state; a successful next changes end only,
\* by minus one; the remaining count is end minus elements_start (as words);
\* and the iterator is exhausted exactly when end = elements_start.
ZstLayout ==
    \A i \in Iters : (life[i] # "none" /\ IsZst(ty[i])) =>
        /\ it[i].allocation_start = dangling(ty[i])
        /\ it[i].elements_start = dangling(ty[i])
        /\ Count(i) - Yields(i) = (it[i].end - it[i].elements_start) % WordMod
        /\ (Yields(i) = Count(i)) <=> (it[i].end = it[i].elements_start)

ZstStep ==
    \A i \in Iters : (life[i] # "none" /\ IsZst(ty[i]) /\ rets'[i] # rets[i]) =>
        /\ it'[i].allocation_start = it[i].allocation_start
        /\ it'[i].elements_start = it[i].elements_start
        /\ IF rets'[i][Len(rets'[i])].some
           THEN /\ it[i].end # it[i].elements_start
                /\ it'[i].end = (it[i].end - 1) % WordMod
           ELSE /\ it[i].end = it[i].elements_start
                /\ it'[i].end = it[i].end

C14_ZstOnlyEndMoves == []ZstLayout /\ [][ZstStep]_vars

C14_Witness ==
    \E i \in Iters :
        /\ life[i] = "active" /\ IsZst(ty[i])
        /\ Count(i) >= 3
        /\ Yields(i) >= 2
        /\ it[i].end # it[i].elements_start
        /\ it[i].end = it[i].elements_start + Count(i) - Yields(i)

\* C18: for a zero-sized T the count survives the wrap-around of the word:
\* end is (placeholder + n) mod 2^w, for every n below 2^w the count is n
\* after the construction and n - j after j yields, and next returns None
\* after n yields and not before.
C18_ZstCountWraps ==
    \A i \in Iters : (life[i] = "active" /\ IsZst(ty[i])) =>
        /\ it[i].end = (dangling(ty[i]) + Count(i) - Yields(i)) % WordMod
        /\ elements_len(ty[i], it[i]) = Count(i) - Yields(i)
        /\ size_hint(ty[i], it[i])[1] = Count(i) - Yields(i)
        /\ \A j \in DOMAIN rets[i] : rets[i][j].some <=> j <= Count(i)
        /\ Yields(i) = IF Len(rets[i]) <= Count(i) THEN Len(rets[i]) ELSE Count(i)

C18_Witness ==
    \E i \in Iters :
        /\ life[i] = "active" /\ IsZst(ty[i])
        /\ Count(i) = WordMod - 1
        /\ dangling(ty[i]) + Count(i) >= WordMod
        /\ Len(rets[i]) = Count(i) + 1
        /\ rets[i][Count(i)].some
        /\ ~rets[i][Count(i) + 1].some

\* C19: a value stored at position p of as_mut_slice after k yields takes
\* the place of element k+p: as_slice shows it at position p and the p-th
\* next from there returns it; the write leaves the three pointers and the
\* count as they were; the slot is destructed once, as its new value, by the
\* drop unless it was yielded before.
WrittenIsSeen ==
    \A i \in Iters : life[i] # "none" =>
        /\ DOMAIN written[i] = DOMAIN orig[i]
        /\ life[i] = "active" =>
             /\ as_slice(ty[i], it[i], mem) = SubSeq(written[i], Yields(i) + 1, Count(i))
             /\ elements_len(ty[i], it[i]) = Count(i) - Yields(i)
        /\ \A j \in DOMAIN rets[i] :
             rets[i][j] = IF j <= Count(i) THEN Some(written[i][j]) ELSE None
        /\ (Finished(i) /\ Sized(i)) =>
             /\ \A j \in (Yields(i) + 1) .. Count(i) :
                    Cardinality(DtorsOf(i, written[i][j])) = 1
             /\ \A j \in 1 .. Yields(i) : DtorsOf(i, written[i][j]) = {}
             /\ \A j \in Overwritten(i) : DtorsOf(i, orig[i][j]) = {}
             /\ Cardinality(Dtors(i)) = Count(i) - Yields(i)
        /\ ~ub

WriteStep ==
    \A i \in Iters : (life[i] = "active" /\ written'[i] # written[i]) =>
        /\ it'[i] = it[i]
        /\ life'[i] = "active"
        /\ rets'[i] = rets[i]
        /\ blocks' = blocks
        /\ size_hint(ty[i], it[i])' = size_hint(ty[i], it[i])
        /\ \E p \in 1 .. (Count(i) - Yields(i)) :
             /\ \A j \in DOMAIN orig[i] :
                    (written'[i][j] # written[i][j]) <=> (j = Yields(i) + p)
             /\ as_slice(ty[i], it[i], mem)'[p] = written'[i][Yields(i) + p]
             /\ \A q \in 1 .. (Count(i) - Yields(i)) :
                    q # p => as_slice(ty[i], it[i], mem)'[q] =
                                 as_slice(ty[i], it[i], mem)[q]

C19_WriteThroughView == []WrittenIsSeen /\ [][WriteStep]_vars

C19_Witness ==
    \E i \in Iters :
        /\ Sized(i)
        /\ Count(i) = 3
        /\ Overwritten(i) = {3}
        /\ Yields(i) = 2
        /\ Finished(i)
        /\ Cardinality(DtorsOf(i, written[i][3])) = 1

====
